---------------------------- MODULE Spec2Model ----------------------------
(***************************************************************************)
(* ResearchFlow, session detail page (SessionDetailPage) and its metrics   *)
(* computation.  The page keeps React state (papers, addedPaperIds,        *)
(* addingPaper, removingPaper, chatMessages, ...) and talks to two         *)
(* backends: the Supabase tables research_sessions/session_papers and the  *)
(* FastAPI endpoints /sources/*, /rag/*, /draft/*.  Every await of the     *)
(* page is a point where other handlers may run, so each handler is split  *)
(* into the step before its await, the backend's processing of the         *)
(* request, and the continuation after the await.                          *)
(***************************************************************************)
EXTENDS Integers, Sequences, FiniteSets, Bags, TLC

VARIABLES
    session,        \* useState<ResearchSession | null>
    loading,        \* useState(true)
    initPc,         \* position of the init effect
    papers,         \* useState<Paper[]>: sequence of paper ids
    addedPaperIds,  \* useState<Set<string>>
    addingPaper,    \* useState<string | null>
    removingPaper,  \* useState<string | null>
    addReqs,        \* /sources/add-to-session requests in flight (bag)
    removeReqs,     \* session_papers delete requests in flight (bag)
    fetchReqs,      \* session_papers select requests in flight (bag)
    dbPapers,       \* session_papers rows of this session, newest first
    chatInput,      \* useState(''): text of the chat input
    chatMessages,   \* useState<ChatMessage[]>
    chatLoading,    \* useState(false)
    chatReqs,       \* questions of the /rag/chat requests in flight
    historyPc,      \* position of the loadHistory effect
    draftContent,   \* useState('')
    draftLoading,   \* useState(false)
    draftReqs,      \* number of /draft/generate requests in flight
    bibLoading,     \* useState(false)
    bibReqs,        \* number of /draft/bibliography requests in flight
    mPc,            \* metrics computation on given inputs: idle, input, done
    mSession,       \* its session argument
    mPapers,        \* its papers argument
    mPoints,        \* its rawPoints
    mChart,         \* its result
    draftStyle,     \* useState<DraftStyle>('literature_review')
    bibStyle,       \* useState<BibliographyStyle>('bibtex')
    draftReqStyle,  \* style of the /draft/generate request in flight
    bibReqStyle,    \* style of the /draft/bibliography request in flight
    authUser,       \* useAuthStore: user
    authVer,        \* number of user objects the store was given
    authLoading,    \* useAuthStore: loading
    initialized,    \* AuthProvider: useRef(false)
    effectPc,       \* AuthProvider's effect: pending, active, cleaned
    subscribed,     \* the onAuthStateChange subscription is registered
    authReqs,       \* getSession calls in flight
    initRuns,       \* number of initializeAuth calls made
    lastEvent,      \* the event the onAuthStateChange callback was last given
    route,          \* the page the router shows
    homePushed,     \* the address Home last gave to router.push
    onboardingCompleted, \* localStorage item 'onboarding_completed'
    currentStep,    \* OnboardingPage: useState(0)
    sessions,       \* useDashboardStore: sessions
    dashMounted,    \* a DashboardPage is mounted
    dashLoading,    \* DashboardPage: useState(true)
    creating,       \* DashboardPage: useState(false)
    userSeen,       \* the user object the DashboardPage effect last ran for
    dashReqs,       \* research_sessions requests in flight (bag)
    dbSessions,     \* research_sessions rows of the user, newest first
    dbInserted,     \* number of rows research_sessions was ever given
    uploadingPdf,   \* useState(false)
    uploadPc,       \* position of handleUploadPdf: idle, storage, addUploaded, added, fetch
    lastFile,       \* the file the file input last gave to handleUploadPdf
    dbUploaded      \* /sources/add-uploaded has stored the uploaded paper

corpusVars == <<session, loading, initPc, papers, addedPaperIds, addingPaper,
                removingPaper, addReqs, removeReqs, fetchReqs, dbPapers>>

genVars == <<chatInput, chatMessages, chatLoading, chatReqs, historyPc,
             draftContent, draftLoading, draftReqs, bibLoading, bibReqs>>

metricVars == <<mPc, mSession, mPapers, mPoints, mChart>>

styleVars == <<draftStyle, bibStyle, draftReqStyle, bibReqStyle>>

authVars == <<authUser, authVer, authLoading, initialized, effectPc, subscribed,
              authReqs, initRuns, lastEvent>>

homeVars == <<route, homePushed, onboardingCompleted, currentStep>>

dashVars == <<sessions, dashMounted, dashLoading, creating, userSeen, dashReqs,
              dbSessions, dbInserted>>

uploadVars == <<uploadingPdf, uploadPc, lastFile, dbUploaded>>

pageVars == <<styleVars, authVars, homeVars, dashVars>>

appVars == <<pageVars, uploadVars>>

vars == <<corpusVars, genVars, metricVars, appVars>>

---------------------------------------------------------------------------
(* Bounds of the model *)

NumPapers == 2      \* papers that search results and the session can hold
MaxInFlight == 2    \* requests of the corpus handlers in flight at once
MaxChatLen == 2     \* turns of chatMessages up to which questions are asked
MaxHistory == 1     \* turns a /rag/history response holds at most
MaxWords == 2       \* words of a title given to the metrics computation
NumSessions == 2    \* research sessions the user creates at most
MaxDashInFlight == 2 \* research_sessions requests in flight at most
MaxInitRuns == 2    \* initializeAuth calls up to which the provider's effect is run
MaxUserObjects == 2 \* user objects up to which the auth store is given new ones
MaxCitations == 5   \* size of a citation count given to the metrics computation
MaxRelevance == 40  \* relevance of a paper given to the score computation

Null == "null"
PaperNames == <<"p1", "p2", "p3", "p4", "p5">>
PaperIds == {PaperNames[i] : i \in 1..NumPapers}
NullSession == [id |-> Null]

---------------------------------------------------------------------------
(* Helpers on sequences *)

Range(s) == {s[i] : i \in DOMAIN s}

RECURSIVE SelectNot(_, _)
\* prev.filter((p) => p.id !== paperId)
SelectNot(s, x) ==
    IF s = <<>> THEN <<>>
    ELSE IF Head(s) = x THEN SelectNot(Tail(s), x)
         ELSE <<Head(s)>> \o SelectNot(Tail(s), x)

DistinctSeqs(S) ==
    {s \in UNION {[1..n -> S] : n \in 0..Cardinality(S)} :
        \A i, j \in DOMAIN s : i # j => s[i] # s[j]}

\* requests of handleAddPaper, handleRemovePaper, fetchPapers and
\* handleUploadPdf in flight
InFlight ==
    BagCardinality(addReqs) + BagCardinality(removeReqs) + BagCardinality(fetchReqs)
        + (IF uploadPc \in {"storage", "addUploaded", "added"} THEN 1 ELSE 0)

---------------------------------------------------------------------------
(* The papers that search results offer and the session row, as rows *)

Number(n) == [num |-> TRUE, val |-> n]
NotANumber == [num |-> FALSE, val |-> 0]

CatalogTitles ==
    [p \in {"p1", "p2", "p3", "p4", "p5"} |->
        CASE p = "p1" -> <<"D", "e", "e", "p", " ", "n", "e", "t", "s">>
          [] p = "p2" -> <<"C", "o", "o", "k", "i", "n", "g">>
          [] p = "p3" -> <<"N", "e", "t", "s">>
          [] p = "p4" -> <<"d", "e", "e", "p", "-", "n", "e", "t", "s">>
          [] OTHER -> <<"D", "e", "e", "p">>]

CatalogAbstracts ==
    [p \in {"p1", "p2", "p3", "p4", "p5"} |->
        CASE p = "p1" -> <<<<"d", "e", "e", "p", " ", "n", "e", "t", "s", ",", " ", "d", "e", "e", "p">>>>
          [] p = "p3" -> <<<<"i", "n", " ", "d", "e", "p", "t", "h">>>>
          [] OTHER -> <<>>]

CatalogCitations ==
    [p \in {"p1", "p2", "p3", "p4", "p5"} |->
        CASE p = "p1" -> Number(50)
          [] p = "p2" -> Number(5)
          [] p = "p3" -> Number(0)
          [] OTHER -> NotANumber]

\* the Paper object of id p
PaperRow(p) ==
    [id |-> p, title |-> CatalogTitles[p], abstract |-> CatalogAbstracts[p],
     citation_count |-> CatalogCitations[p]]

\* the Paper objects of a list of ids
PaperRows(ids) == [i \in DOMAIN ids |-> PaperRow(ids[i])]

\* the row of research_sessions the page is opened for
SessionRow == [id |-> "s1", title |-> <<"D", "e", "e", "p", " ", "n", "e", "t", "s">>, topic |-> <<"n", "e", "t", "s">>]

---------------------------------------------------------------------------
(* Backend, as the page sees it *)

\* POST /sources/add-to-session handled: the row is inserted as the newest one
srvAddToSession(p) ==
    IF p \in Range(dbPapers) THEN dbPapers ELSE <<p>> \o dbPapers

\* delete from session_papers where paper_id = p
srvDeletePaper(p) == SelectNot(dbPapers, p)

---------------------------------------------------------------------------
(* Init effect: load the session row, then the session's papers *)

\* the rest of the application when the session page is first rendered: the
\* style selects at their defaults, the auth store and the dashboard store as
\* created, nothing in localStorage, no research session stored yet
AppIdle ==
    /\ draftStyle = "literature_review"
    /\ bibStyle = "bibtex"
    /\ draftReqStyle = Null
    /\ bibReqStyle = Null
    /\ authUser = Null
    /\ authVer = 0
    /\ authLoading = TRUE
    /\ initialized = FALSE
    /\ effectPc = "pending"
    /\ subscribed = FALSE
    /\ authReqs = 0
    /\ initRuns = 0
    /\ lastEvent = Null
    /\ route = "/"
    /\ homePushed = Null
    /\ onboardingCompleted = Null
    /\ currentStep = 0
    /\ sessions = <<>>
    /\ dashMounted = FALSE
    /\ dashLoading = TRUE
    /\ creating = FALSE
    /\ userSeen = <<Null, 0>>
    /\ dashReqs = EmptyBag
    /\ dbSessions = <<>>
    /\ dbInserted = 0
    /\ uploadingPdf = FALSE
    /\ uploadPc = "idle"
    /\ lastFile = [type |-> Null, size |-> 0]
    /\ dbUploaded = FALSE

\* the page right after its first render
PageInit ==
    /\ AppIdle
    /\ session = NullSession
    /\ loading = TRUE
    /\ initPc = "session"
    /\ papers = <<>>
    /\ addedPaperIds = {}
    /\ addingPaper = Null
    /\ removingPaper = Null
    /\ addReqs = EmptyBag
    /\ removeReqs = EmptyBag
    /\ fetchReqs = EmptyBag
    /\ dbPapers \in DistinctSeqs(PaperIds)
    /\ chatInput = <<>>
    /\ chatMessages = <<>>
    /\ chatLoading = FALSE
    /\ chatReqs = <<>>
    /\ historyPc = "sent"
    /\ draftContent = <<>>
    /\ draftLoading = FALSE
    /\ draftReqs = 0
    /\ bibLoading = FALSE
    /\ bibReqs = 0

MetricsIdle ==
    /\ mPc = "idle"
    /\ mSession = NullSession
    /\ mPapers = <<>>
    /\ mPoints = <<>>
    /\ mChart = <<>>

Init == PageInit /\ MetricsIdle

\* the page below the loading spinner and the "Session not found" screen
Rendered == ~loading /\ session # NullSession

\* research_sessions select succeeded: setSession, then await fetchPapers()
initSessionOk ==
    /\ initPc = "session"
    /\ session' = SessionRow
    /\ initPc' = "papers"
    /\ fetchReqs' = fetchReqs (+) SetToBag({[served |-> FALSE, snap |-> <<>>, init |-> TRUE, upload |-> FALSE]})
    /\ UNCHANGED <<genVars, metricVars, appVars>>
    /\ UNCHANGED <<loading, papers, addedPaperIds, addingPaper, removingPaper,
                   addReqs, removeReqs, dbPapers>>

\* research_sessions select failed: router.push('/dashboard'), setLoading(false)
initSessionFail ==
    /\ initPc = "session"
    /\ initPc' = "failed"
    /\ loading' = FALSE
    /\ UNCHANGED <<genVars, metricVars, appVars>>
    /\ UNCHANGED <<session, papers, addedPaperIds, addingPaper, removingPaper,
                   addReqs, removeReqs, fetchReqs, dbPapers>>

---------------------------------------------------------------------------
(* fetchPapers *)

\* Refresh button: onClick={fetchPapers}
fetchPapers ==
    /\ Rendered
    /\ InFlight < MaxInFlight
    /\ fetchReqs' = fetchReqs (+) SetToBag({[served |-> FALSE, snap |-> <<>>, init |-> FALSE, upload |-> FALSE]})
    /\ UNCHANGED <<genVars, metricVars, appVars>>
    /\ UNCHANGED <<session, loading, initPc, papers, addedPaperIds, addingPaper,
                   removingPaper, addReqs, removeReqs, dbPapers>>

\* the select is executed on the current rows
srvSelectPapers ==
    \E r \in BagToSet(fetchReqs) :
        /\ ~r.served
        /\ fetchReqs' = (fetchReqs (-) SetToBag({r}))
                            (+) SetToBag({[r EXCEPT !.served = TRUE, !.snap = dbPapers]})
        /\ UNCHANGED <<genVars, metricVars, appVars>>
        /\ UNCHANGED <<session, loading, initPc, papers, addedPaperIds,
                       addingPaper, removingPaper, addReqs, removeReqs, dbPapers>>

idsOf_withoutNewest(papersList) ==
    IF papersList = <<>> THEN {} ELSE Range(Tail(papersList))

\* const ids = new Set(papersList.map((p: Paper) => p.id))
idsOf(papersList) == Range(papersList)

\* handleUploadPdf after its await fetchPapers(): alert('PDF uploaded and
\* added to sources.'), then finally setUploadingPdf(false)
handleUploadPdf_finish(r) ==
    /\ IF r.upload THEN uploadingPdf' = FALSE /\ uploadPc' = "idle"
                   ELSE UNCHANGED <<uploadingPdf, uploadPc>>
    /\ UNCHANGED <<lastFile, dbUploaded>>

\* after the await: setPapers(papersList); setAddedPaperIds(ids); the init
\* effect continues with setLoading(false)
fetchPapers_resolve ==
    \E r \in BagToSet(fetchReqs) :
        /\ r.served
        /\ fetchReqs' = fetchReqs (-) SetToBag({r})
        /\ papers' = r.snap
        /\ addedPaperIds' = idsOf(r.snap)
        /\ IF r.init THEN loading' = FALSE /\ initPc' = "done"
                     ELSE UNCHANGED <<loading, initPc>>
        /\ handleUploadPdf_finish(r)
        /\ UNCHANGED <<genVars, metricVars, pageVars>>
        /\ UNCHANGED <<session, addingPaper, removingPaper, addReqs, removeReqs,
                       dbPapers>>

\* the select failed: console.error only; the init effect continues as well
fetchPapers_reject ==
    \E r \in BagToSet(fetchReqs) :
        /\ ~r.served
        /\ fetchReqs' = fetchReqs (-) SetToBag({r})
        /\ IF r.init THEN loading' = FALSE /\ initPc' = "done"
                     ELSE UNCHANGED <<loading, initPc>>
        /\ handleUploadPdf_finish(r)
        /\ UNCHANGED <<genVars, metricVars, pageVars>>
        /\ UNCHANGED <<session, papers, addedPaperIds, addingPaper, removingPaper,
                       addReqs, removeReqs, dbPapers>>

---------------------------------------------------------------------------
(* handleAddPaper *)

\* the guard of handleAddPaper and the add button's disabled attribute
addBlocked(p) == p \in addedPaperIds \/ addingPaper = p

\* up to the await: setAddingPaper(paper.id); api.post(...)
handleAddPaper(p) ==
    /\ Rendered
    /\ ~addBlocked(p)
    /\ InFlight < MaxInFlight
    /\ addingPaper' = p
    /\ addReqs' = addReqs (+) SetToBag({[paper |-> p, st |-> "sent"]})
    /\ UNCHANGED <<genVars, metricVars, appVars>>
    /\ UNCHANGED <<session, loading, initPc, papers, addedPaperIds, removingPaper,
                   removeReqs, fetchReqs, dbPapers>>

\* the backend accepts the request
srvAddOk(p) ==
    /\ BagIn([paper |-> p, st |-> "sent"], addReqs)
    /\ addReqs' = (addReqs (-) SetToBag({[paper |-> p, st |-> "sent"]}))
                      (+) SetToBag({[paper |-> p, st |-> "ok"]})
    /\ dbPapers' = srvAddToSession(p)
    /\ UNCHANGED <<genVars, metricVars, appVars>>
    /\ UNCHANGED <<session, loading, initPc, papers, addedPaperIds, addingPaper,
                   removingPaper, removeReqs, fetchReqs>>

\* the update written without the prev.some(...) test
prependPaper_noDedupe(prev, p) == <<p>> \o prev

\* the update written as setPapers([paper, ...papers]) with the papers of the
\* render in which the handler was created, an empty list
prependPaper_stale(prev, p) == <<p>>

\* setPapers((prev) => prev.some(...) ? prev : [paper, ...prev])
prependPaper(prev, p) ==
    IF \E i \in DOMAIN prev : prev[i] = p THEN prev ELSE <<p>> \o prev

\* after the await, try branch and finally
handleAddPaper_resolve(p) ==
    /\ BagIn([paper |-> p, st |-> "ok"], addReqs)
    /\ addReqs' = addReqs (-) SetToBag({[paper |-> p, st |-> "ok"]})
    /\ papers' = prependPaper(papers, p)
    /\ addedPaperIds' = addedPaperIds \cup {p}
    /\ addingPaper' = Null
    /\ UNCHANGED <<genVars, metricVars, appVars>>
    /\ UNCHANGED <<session, loading, initPc, removingPaper, removeReqs, fetchReqs,
                   dbPapers>>

\* the request failed or was rejected: catch branch and finally
handleAddPaper_reject(p) ==
    /\ BagIn([paper |-> p, st |-> "sent"], addReqs)
    /\ addReqs' = addReqs (-) SetToBag({[paper |-> p, st |-> "sent"]})
    /\ addingPaper' = Null
    /\ UNCHANGED <<genVars, metricVars, appVars>>
    /\ UNCHANGED <<session, loading, initPc, papers, addedPaperIds, removingPaper,
                   removeReqs, fetchReqs, dbPapers>>

---------------------------------------------------------------------------
(* handleRemovePaper *)

\* a Remove button exists for every card of My Sources and is disabled while
\* removingPaper is that card's paper
removeOffered(p) == p \in Range(papers) /\ removingPaper # p

\* confirm() answered with Cancel: return
handleRemovePaper_cancel(p) ==
    /\ Rendered
    /\ removeOffered(p)
    /\ UNCHANGED vars

\* confirm() answered with OK: setRemovingPaper(paperId); delete request
handleRemovePaper(p) ==
    /\ Rendered
    /\ removeOffered(p)
    /\ InFlight < MaxInFlight
    /\ removingPaper' = p
    /\ removeReqs' = removeReqs (+) SetToBag({[paper |-> p, st |-> "sent"]})
    /\ UNCHANGED <<genVars, metricVars, appVars>>
    /\ UNCHANGED <<session, loading, initPc, papers, addedPaperIds, addingPaper,
                   addReqs, fetchReqs, dbPapers>>

srvRemoveOk(p) ==
    /\ BagIn([paper |-> p, st |-> "sent"], removeReqs)
    /\ removeReqs' = (removeReqs (-) SetToBag({[paper |-> p, st |-> "sent"]}))
                         (+) SetToBag({[paper |-> p, st |-> "ok"]})
    /\ dbPapers' = srvDeletePaper(p)
    /\ UNCHANGED <<genVars, metricVars, appVars>>
    /\ UNCHANGED <<session, loading, initPc, papers, addedPaperIds, addingPaper,
                   removingPaper, addReqs, fetchReqs>>

\* after the await, no error: both state updates, then finally
handleRemovePaper_resolve(p) ==
    /\ BagIn([paper |-> p, st |-> "ok"], removeReqs)
    /\ removeReqs' = removeReqs (-) SetToBag({[paper |-> p, st |-> "ok"]})
    /\ papers' = SelectNot(papers, p)
    /\ addedPaperIds' = addedPaperIds \ {p}
    /\ removingPaper' = Null
    /\ UNCHANGED <<genVars, metricVars, appVars>>
    /\ UNCHANGED <<session, loading, initPc, addingPaper, addReqs, fetchReqs,
                   dbPapers>>

\* the delete failed: error thrown, alert, then finally
handleRemovePaper_reject(p) ==
    /\ BagIn([paper |-> p, st |-> "sent"], removeReqs)
    /\ removeReqs' = removeReqs (-) SetToBag({[paper |-> p, st |-> "sent"]})
    /\ removingPaper' = Null
    /\ UNCHANGED <<genVars, metricVars, appVars>>
    /\ UNCHANGED <<session, loading, initPc, papers, addedPaperIds, addingPaper,
                   addReqs, fetchReqs, dbPapers>>

---------------------------------------------------------------------------
(* handleUploadPdf *)

PdfType == "application/pdf"

\* const maxSize = 20 * 1024 * 1024
maxSize == 20 * 1024 * 1024

\* e.target.files?.[0] of a change event without a file
NoFile == [type |-> Null, size |-> 0]

\* the files the file input is given: type and size in bytes
FileTypes == {PdfType, "image/png", ""}
FileSizes == {0, maxSize - 1, maxSize, maxSize + 1}
Files == [type : FileTypes, size : FileSizes]

\* the id /sources/add-uploaded gives the paper it creates
UploadedPaper == "p5"

\* the two checks that end the handler with an alert
fileRejected(file) == file.type # PdfType \/ file.size > maxSize

\* onChange of the file input (opened by the Upload PDF button, disabled
\* while uploadingPdf), up to the first await: the checks, then
\* setUploadingPdf(true) and supabase.storage.from('uploads').upload(...)
handleUploadPdf(file) ==
    /\ Rendered
    /\ ~uploadingPdf
    /\ lastFile' = file
    /\ IF file = NoFile \/ fileRejected(file)
         THEN UNCHANGED <<uploadingPdf, uploadPc>>
         ELSE /\ ~dbUploaded
              /\ InFlight < MaxInFlight
              /\ uploadingPdf' = TRUE
              /\ uploadPc' = "storage"
    /\ UNCHANGED <<corpusVars, genVars, metricVars, pageVars, dbUploaded>>

\* the storage upload succeeded: getPublicUrl, then
\* api.post('/sources/add-uploaded', ...)
handleUploadPdf_uploaded ==
    /\ uploadPc = "storage"
    /\ uploadPc' = "addUploaded"
    /\ UNCHANGED <<corpusVars, genVars, metricVars, pageVars, uploadingPdf,
                   lastFile, dbUploaded>>

\* the storage upload returned uploadError or threw: alert, then finally
handleUploadPdf_uploadError ==
    /\ uploadPc = "storage"
    /\ uploadPc' = "idle"
    /\ uploadingPdf' = FALSE
    /\ UNCHANGED <<corpusVars, genVars, metricVars, pageVars, lastFile, dbUploaded>>

\* POST /sources/add-uploaded handled: the paper is created and its row is
\* inserted as the newest one
srvAddUploaded ==
    /\ uploadPc = "addUploaded"
    /\ uploadPc' = "added"
    /\ dbPapers' = <<UploadedPaper>> \o dbPapers
    /\ dbUploaded' = TRUE
    /\ UNCHANGED <<genVars, metricVars, pageVars, uploadingPdf, lastFile>>
    /\ UNCHANGED <<session, loading, initPc, papers, addedPaperIds, addingPaper,
                   removingPaper, addReqs, removeReqs, fetchReqs>>

\* after the await of the post: await fetchPapers()
handleUploadPdf_added ==
    /\ uploadPc = "added"
    /\ uploadPc' = "fetch"
    /\ fetchReqs' = fetchReqs (+) SetToBag({[served |-> FALSE, snap |-> <<>>, init |-> FALSE, upload |-> TRUE]})
    /\ UNCHANGED <<genVars, metricVars, pageVars, uploadingPdf, lastFile, dbUploaded>>
    /\ UNCHANGED <<session, loading, initPc, papers, addedPaperIds, addingPaper,
                   removingPaper, addReqs, removeReqs, dbPapers>>

\* the post failed: catch with alert, then finally
handleUploadPdf_reject ==
    /\ uploadPc = "addUploaded"
    /\ uploadPc' = "idle"
    /\ uploadingPdf' = FALSE
    /\ UNCHANGED <<corpusVars, genVars, metricVars, pageVars, lastFile, dbUploaded>>

---------------------------------------------------------------------------
(* Chat: loadHistory effect and handleChatSubmit.  Texts are sequences of    *)
(* characters.                                                              *)

IsSpace(c) == c \in {" ", "\t", "\n"}

RECURSIVE TrimStart(_)
TrimStart(t) ==
    IF t # <<>> /\ IsSpace(Head(t)) THEN TrimStart(Tail(t)) ELSE t

RECURSIVE TrimEnd(_)
TrimEnd(t) ==
    IF t # <<>> /\ IsSpace(t[Len(t)]) THEN TrimEnd(SubSeq(t, 1, Len(t) - 1)) ELSE t

\* String.prototype.trim
Trim(t) == TrimEnd(TrimStart(t))

\* what the user may type into the chat input
ChatInputs == {<<>>, <<" ">>, <<"q">>, <<" ", "q", " ">>}

\* answers of the model, as /rag/chat returns them
Answers == {<<"a">>}

\* error.response?.data?.detail of a failed request; <<>> when there is none
ErrorDetails == {<<>>, <<"d">>}

UserTurn(t) == [role |-> "user", content |-> t]
AssistantTurn(t) == [role |-> "assistant", content |-> t]

\* turns the backend may hold for the session and return from /rag/history
StoredTurns == {UserTurn(<<"q">>), AssistantTurn(<<"a">>)}
Histories == UNION {[1..n -> StoredTurns] : n \in 0..MaxHistory}

ErrorPrefix == <<"E", "r", "r", "o", "r", ":", " ">>
FailedToGetAnswer == <<"F", "a", "i", "l", "e", "d", " ", "t", "o", " ", "g", "e", "t", " ", "a", "n", "s", "w", "e", "r">>

\* the failure reported without the 'Error: ' prefix
chatErrorContent_bare(detail) ==
    IF detail # <<>> THEN detail ELSE FailedToGetAnswer

\* 'Error: ' + (error.response?.data?.detail || 'Failed to get answer')
chatErrorContent(detail) ==
    ErrorPrefix \o (IF detail # <<>> THEN detail ELSE FailedToGetAnswer)

\* onChange of the chat input
setChatInput(t) ==
    /\ Rendered
    /\ t # chatInput
    /\ chatInput' = t
    /\ UNCHANGED <<corpusVars, metricVars, appVars>>
    /\ UNCHANGED <<chatMessages, chatLoading, chatReqs, historyPc, draftContent,
                   draftLoading, draftReqs, bibLoading, bibReqs>>

\* the Ask button disabled without looking at the corpus
askDisabled_anyCorpus == chatLoading \/ Trim(chatInput) = <<>>

\* the Ask button's disabled attribute; a form whose submit button is
\* disabled is not submitted
askDisabled == chatLoading \/ Trim(chatInput) = <<>> \/ Len(papers) = 0

\* up to the await: the user turn is appended and the request is sent
handleChatSubmit ==
    /\ Rendered
    /\ ~askDisabled
    /\ Trim(chatInput) # <<>>
    /\ Len(chatMessages) + 2 <= MaxChatLen
    /\ chatMessages' = Append(chatMessages, UserTurn(Trim(chatInput)))
    /\ chatInput' = <<>>
    /\ chatLoading' = TRUE
    /\ chatReqs' = Append(chatReqs, Trim(chatInput))
    /\ UNCHANGED <<corpusVars, metricVars, appVars>>
    /\ UNCHANGED <<historyPc, draftContent, draftLoading, draftReqs, bibLoading,
                   bibReqs>>

\* after the await, try branch and finally
handleChatSubmit_resolve(answer) ==
    /\ chatReqs # <<>>
    /\ chatReqs' = Tail(chatReqs)
    /\ chatMessages' = Append(chatMessages, AssistantTurn(answer))
    /\ chatLoading' = FALSE
    /\ UNCHANGED <<corpusVars, metricVars, appVars>>
    /\ UNCHANGED <<chatInput, historyPc, draftContent, draftLoading, draftReqs,
                   bibLoading, bibReqs>>

\* after the await, catch branch and finally
handleChatSubmit_reject(detail) ==
    /\ chatReqs # <<>>
    /\ chatReqs' = Tail(chatReqs)
    /\ chatMessages' = Append(chatMessages, AssistantTurn(chatErrorContent(detail)))
    /\ chatLoading' = FALSE
    /\ UNCHANGED <<corpusVars, metricVars, appVars>>
    /\ UNCHANGED <<chatInput, historyPc, draftContent, draftLoading, draftReqs,
                   bibLoading, bibReqs>>

\* /rag/history answered: setChatMessages(res.data)
loadHistory_resolve(h) ==
    /\ historyPc = "sent"
    /\ historyPc' = "done"
    /\ chatMessages' = h
    /\ UNCHANGED <<corpusVars, metricVars, appVars>>
    /\ UNCHANGED <<chatInput, chatLoading, chatReqs, draftContent, draftLoading,
                   draftReqs, bibLoading, bibReqs>>

\* /rag/history failed: console.error only
loadHistory_reject ==
    /\ historyPc = "sent"
    /\ historyPc' = "done"
    /\ UNCHANGED <<corpusVars, metricVars, appVars>>
    /\ UNCHANGED <<chatInput, chatMessages, chatLoading, chatReqs, draftContent,
                   draftLoading, draftReqs, bibLoading, bibReqs>>

---------------------------------------------------------------------------
(* Draft generation and bibliography export *)

\* res.data.content of /draft/generate; <<>> when the field is missing
DraftContents == {<<>>, <<"D">>}

\* the Generate Draft button's disabled attribute
\* the <option> values of the draft style select, with an option the
\* backend does not know
DraftStyleOptions_withOutline == {"summary", "literature_review", "outline"}

\* the <option> values of the draft style select
DraftStyleOptions == {"summary", "literature_review"}

\* the <option> values of the bibliography style select
BibStyleOptions == {"bibtex", "apa", "mla", "ieee"}

\* onChange of the draft style select
setDraftStyle(style) ==
    /\ Rendered
    /\ style \in DraftStyleOptions
    /\ draftStyle' = style
    /\ UNCHANGED <<corpusVars, genVars, metricVars, uploadVars, authVars, homeVars, dashVars>>
    /\ UNCHANGED <<bibStyle, draftReqStyle, bibReqStyle>>

\* onChange of the bibliography style select
setBibStyle(style) ==
    /\ Rendered
    /\ style \in BibStyleOptions
    /\ bibStyle' = style
    /\ UNCHANGED <<corpusVars, genVars, metricVars, uploadVars, authVars, homeVars, dashVars>>
    /\ UNCHANGED <<draftStyle, draftReqStyle, bibReqStyle>>

draftDisabled == draftLoading \/ Len(papers) = 0

\* up to the await
handleGenerateDraft ==
    /\ Rendered
    /\ ~draftDisabled
    /\ Len(papers) # 0
    /\ draftLoading' = TRUE
    /\ draftReqs' = draftReqs + 1
    /\ draftReqStyle' = draftStyle
    /\ UNCHANGED <<corpusVars, metricVars, uploadVars, authVars, homeVars, dashVars>>
    /\ UNCHANGED <<draftStyle, bibStyle, bibReqStyle>>
    /\ UNCHANGED <<chatInput, chatMessages, chatLoading, chatReqs, historyPc,
                   draftContent, bibLoading, bibReqs>>

\* after the await: setDraftContent(res.data.content || ''), finally
handleGenerateDraft_resolve(content) ==
    /\ draftReqs > 0
    /\ draftReqs' = draftReqs - 1
    /\ draftReqStyle' = Null
    /\ draftContent' = content
    /\ draftLoading' = FALSE
    /\ UNCHANGED <<corpusVars, metricVars, uploadVars, authVars, homeVars, dashVars>>
    /\ UNCHANGED <<draftStyle, bibStyle, bibReqStyle>>
    /\ UNCHANGED <<chatInput, chatMessages, chatLoading, chatReqs, historyPc,
                   bibLoading, bibReqs>>

\* after the await: alert, finally
handleGenerateDraft_reject ==
    /\ draftReqs > 0
    /\ draftReqs' = draftReqs - 1
    /\ draftReqStyle' = Null
    /\ draftLoading' = FALSE
    /\ UNCHANGED <<corpusVars, metricVars, uploadVars, authVars, homeVars, dashVars>>
    /\ UNCHANGED <<draftStyle, bibStyle, bibReqStyle>>
    /\ UNCHANGED <<chatInput, chatMessages, chatLoading, chatReqs, historyPc,
                   draftContent, bibLoading, bibReqs>>

\* the Export refs button's disabled attribute
bibDisabled == bibLoading \/ Len(papers) = 0

\* up to the await
handleExportBibliography ==
    /\ Rendered
    /\ ~bibDisabled
    /\ Len(papers) # 0
    /\ bibLoading' = TRUE
    /\ bibReqs' = bibReqs + 1
    /\ bibReqStyle' = bibStyle
    /\ UNCHANGED <<corpusVars, metricVars, uploadVars, authVars, homeVars, dashVars>>
    /\ UNCHANGED <<draftStyle, bibStyle, draftReqStyle>>
    /\ UNCHANGED <<chatInput, chatMessages, chatLoading, chatReqs, historyPc,
                   draftContent, draftLoading, draftReqs>>

\* after the await, whatever the outcome (download, alert): finally
handleExportBibliography_done ==
    /\ bibReqs > 0
    /\ bibReqs' = bibReqs - 1
    /\ bibReqStyle' = Null
    /\ bibLoading' = FALSE
    /\ UNCHANGED <<corpusVars, metricVars, uploadVars, authVars, homeVars, dashVars>>
    /\ UNCHANGED <<draftStyle, bibStyle, draftReqStyle>>
    /\ UNCHANGED <<chatInput, chatMessages, chatLoading, chatReqs, historyPc,
                   draftContent, draftLoading, draftReqs>>

---------------------------------------------------------------------------
(* Metrics (metricsChartData).  Texts are sequences of characters.          *)

UpperCase == <<"A", "B", "C", "D", "E", "F", "G", "H", "I", "J", "K", "L", "M", "N", "O", "P", "Q", "R", "S", "T", "U", "V", "W", "X", "Y", "Z">>
LowerCase == <<"a", "b", "c", "d", "e", "f", "g", "h", "i", "j", "k", "l", "m", "n", "o", "p", "q", "r", "s", "t", "u", "v", "w", "x", "y", "z">>
Digits == <<"0", "1", "2", "3", "4", "5", "6", "7", "8", "9">>

UpperChars == Range(UpperCase)
LowerOf == [c \in UpperChars |->
               LowerCase[CHOOSE i \in DOMAIN UpperCase : UpperCase[i] = c]]

\* String.prototype.toLowerCase, character by character
LowerChar(c) == IF c \in UpperChars THEN LowerOf[c] ELSE c

\* the text as it is
toLowerCase_asIs(t) == t

toLowerCase(t) == [i \in DOMAIN t |-> LowerChar(t[i])]

\* the characters the class [a-z0-9\s-] of tokenize keeps
TokenChars == Range(LowerCase) \cup Range(Digits) \cup {"-"}
IsTokenChar(c) == c \in TokenChars

\* .replace(/[^a-z0-9\s-]/g, ' ')
stripPunctuation(t) ==
    [i \in DOMAIN t |-> IF IsTokenChar(t[i]) \/ IsSpace(t[i]) THEN t[i] ELSE " "]

RECURSIVE SplitFrom(_, _, _)
SplitFrom(rest, cur, inSeparator) ==
    IF rest = <<>> THEN <<cur>>
    ELSE IF IsSpace(Head(rest))
         THEN IF inSeparator THEN SplitFrom(Tail(rest), cur, TRUE)
              ELSE <<cur>> \o SplitFrom(Tail(rest), <<>>, TRUE)
         ELSE SplitFrom(Tail(rest), Append(cur, Head(rest)), FALSE)

\* .split(/\s+/)
splitWhitespace(t) == SplitFrom(t, <<>>, FALSE)

\* .filter((t) => t.length >= 4)
MinTokenLength == 4

\* the array tokenize builds its Set from
tokenList(text) ==
    SelectSeq(splitWhitespace(stripPunctuation(toLowerCase(text))),
              LAMBDA w : Len(w) >= MinTokenLength)

\* tokenize: the Set of the tokens; a falsy text gives the empty Set
tokenize(text) == IF text = <<>> THEN {} ELSE Range(tokenList(text))

\* `${a || ''} ${b || ''}`
joinWithSpace(a, b) == a \o <<" ">> \o b

\* a nullable string is <<>> (null) or <<text>>; x || ''
orEmpty(opt) == IF opt = <<>> THEN <<>> ELSE opt[1]

topicTextOf(s) == toLowerCase(joinWithSpace(s.title, s.topic))

paperTextOf(p) == toLowerCase(joinWithSpace(p.title, orEmpty(p.abstract)))

RECURSIVE CountIn(_, _)
\* topicTokens.forEach((t) => { if (paperTokens.has(t)) relevance++ })
CountIn(topicTokens, paperTokens) ==
    IF topicTokens = {} THEN 0
    ELSE LET t == CHOOSE x \in topicTokens : TRUE
         IN  (IF t \in paperTokens THEN 1 ELSE 0)
                 + CountIn(topicTokens \ {t}, paperTokens)

\* the paper's tokens kept as an array: every occurrence counts
relevanceOf_everyOccurrence(topicTokens, p) ==
    Len(SelectSeq(tokenList(paperTextOf(p)), LAMBDA w : w \in topicTokens))

relevanceOf(topicTokens, p) == CountIn(topicTokens, tokenize(paperTextOf(p)))

\* \w of a regular expression
WordChars == Range(LowerCase) \cup Range(UpperCase) \cup Range(Digits) \cup {"_"}
IsWordChar(c) == c \in WordChars

\* \b at position k of text: between text[k-1] and text[k]
WordBoundary(text, k) ==
    LET before == k > 1 /\ IsWordChar(text[k - 1])
        after == k <= Len(text) /\ IsWordChar(text[k])
    IN  before # after

MatchesAt(text, k, t) ==
    /\ k + Len(t) - 1 <= Len(text)
    /\ \A i \in 1..Len(t) : LowerChar(text[k + i - 1]) = LowerChar(t[i])
    /\ WordBoundary(text, k)
    /\ WordBoundary(text, k + Len(t))

RECURSIVE CountMatches(_, _, _)
\* text.match(new RegExp(`\\b${t}\\b`, 'gi')): matches found left to right,
\* each search starting where the previous match ended
CountMatches(text, k, t) ==
    IF k > Len(text) THEN 0
    ELSE IF MatchesAt(text, k, t) THEN 1 + CountMatches(text, k + Len(t), t)
         ELSE CountMatches(text, k + 1, t)

RECURSIVE SumHits(_, _)
SumHits(topicTokens, text) ==
    IF topicTokens = {} THEN 0
    ELSE LET t == CHOOSE x \in topicTokens : TRUE
         IN  CountMatches(text, 1, t) + SumHits(topicTokens \ {t}, text)

\* every token that matches counts once, however often it matches
keywordHitsOf_distinct(topicTokens, p) ==
    Cardinality({t \in topicTokens : CountMatches(paperTextOf(p), 1, t) > 0})

keywordHitsOf(topicTokens, p) == SumHits(topicTokens, paperTextOf(p))

\* the number as stored, without the test > 0
citationsOf_unclamped(p) ==
    IF p.citation_count.num THEN p.citation_count.val ELSE 0

\* citation_count is [num |-> typeof is 'number', val |-> the number]
citationsOf(p) ==
    IF p.citation_count.num /\ p.citation_count.val > 0
    THEN p.citation_count.val ELSE 0

\* the loop over papers
rawPointsOf(s, ps) ==
    LET topicTokens == tokenize(topicTextOf(s))
    IN  [i \in DOMAIN ps |->
            [id |-> ps[i].id,
             title |-> ps[i].title,
             citations |-> citationsOf(ps[i]),
             relevance |-> relevanceOf(topicTokens, ps[i]),
             keywordHits |-> keywordHitsOf(topicTokens, ps[i])]]

RECURSIVE MaxOf(_, _)
\* rawPoints.reduce((m, p) => Math.max(m, p.relevance), 0)
MaxOf(points, m) ==
    IF points = <<>> THEN m
    ELSE MaxOf(Tail(points),
               IF Head(points).relevance > m THEN Head(points).relevance ELSE m)

\* ... || 1
maxRelevanceOf(points) ==
    LET m == MaxOf(points, 0) IN IF m = 0 THEN 1 ELSE m

---------------------------------------------------------------------------
(* Number arithmetic of relevanceScore.  A positive double is              *)
(* [m |-> its 53 significand bits, first bit 1, e |-> the exponent of the   *)
(* first bit]; zero is [m |-> <<>>, e |-> 0].  Division and multiplication  *)
(* round to nearest, ties to even, as IEEE 754 prescribes.                  *)

SignificandBits == 53

DoubleZero == [m |-> <<>>, e |-> 0]

RECURSIVE QuotientBits(_, _, _)
\* the next n bits of rem / b, most significant first (0 <= rem < b)
QuotientBits(rem, b, n) ==
    IF n = 0 THEN <<>>
    ELSE LET bit == IF 2 * rem >= b THEN 1 ELSE 0
         IN  <<bit>> \o QuotientBits(2 * rem - bit * b, b, n - 1)

RECURSIVE RemainderAfter(_, _, _)
\* the remainder left after n bits of rem / b
RemainderAfter(rem, b, n) ==
    IF n = 0 THEN rem
    ELSE LET bit == IF 2 * rem >= b THEN 1 ELSE 0
         IN  RemainderAfter(2 * rem - bit * b, b, n - 1)

RECURSIVE LeadingZeros(_, _)
\* zero bits of a / b after the binary point, before its first 1 (0 < a < b)
LeadingZeros(a, b) == IF 2 * a >= b THEN 0 ELSE 1 + LeadingZeros(2 * a, b)

RECURSIVE Increment(_)
\* bits + 1, same length (all ones wraps to all zeros)
Increment(bits) ==
    IF bits = <<>> THEN <<>>
    ELSE IF bits[Len(bits)] = 0
         THEN SubSeq(bits, 1, Len(bits) - 1) \o <<1>>
         ELSE Increment(SubSeq(bits, 1, Len(bits) - 1)) \o <<0>>

\* bits (first bit 1, exponent e) rounded to the significand length
RoundToDouble(bits, e, sticky) ==
    IF Len(bits) <= SignificandBits
    THEN [m |-> bits \o [i \in 1..(SignificandBits - Len(bits)) |-> 0], e |-> e]
    ELSE LET kept == SubSeq(bits, 1, SignificandBits)
             guard == bits[SignificandBits + 1]
             rest == sticky \/ \E i \in (SignificandBits + 2)..Len(bits) : bits[i] = 1
             up == guard = 1 /\ (rest \/ kept[SignificandBits] = 1)
             inc == Increment(kept)
         IN  IF ~up THEN [m |-> kept, e |-> e]
             ELSE IF inc[1] = 1 THEN [m |-> inc, e |-> e]
             ELSE [m |-> <<1>> \o SubSeq(inc, 2, SignificandBits), e |-> e + 1]

\* a / b for integers 0 <= a <= b, b >= 1
DoubleDiv(a, b) ==
    IF a = 0 THEN DoubleZero
    ELSE IF a = b THEN RoundToDouble(<<1>>, 0, FALSE)
    ELSE LET z == LeadingZeros(a, b)
             rem == RemainderAfter(a, b, z)
         IN  RoundToDouble(QuotientBits(rem, b, SignificandBits + 1), -(z + 1),
                           RemainderAfter(rem, b, SignificandBits + 1) # 0)

RECURSIVE TimesSmall(_, _, _)
\* bits (least significant first) times k plus carry, least significant first
TimesSmall(bits, k, carry) ==
    IF bits = <<>>
    THEN IF carry = 0 THEN <<>> ELSE <<carry % 2>> \o TimesSmall(<<>>, k, carry \div 2)
    ELSE LET v == Head(bits) * k + carry
         IN  <<v % 2>> \o TimesSmall(Tail(bits), k, v \div 2)

Reverse(bits) == [i \in DOMAIN bits |-> bits[Len(bits) + 1 - i]]

\* x * k for a double x and an integer k >= 1
DoubleTimes(x, k) ==
    IF x.m = <<>> THEN DoubleZero
    ELSE LET product == Reverse(TimesSmall(Reverse(x.m), k, 0))
         IN  RoundToDouble(product, x.e + Len(product) - SignificandBits, FALSE)

RECURSIVE BitsToNat(_)
BitsToNat(bits) ==
    IF bits = <<>> THEN 0
    ELSE 2 * BitsToNat(SubSeq(bits, 1, Len(bits) - 1)) + bits[Len(bits)]

\* Math.round of a double in [0, 2^52): nearest integer, ties upwards
MathRound(x) ==
    IF x.m = <<>> \/ x.e < -1 THEN 0
    ELSE IF x.e = -1 THEN 1
    ELSE BitsToNat(SubSeq(x.m, 1, x.e + 1)) + x.m[x.e + 2]

\* the relevance itself, not its share of the maximum
relevanceScoreOf_unscaled(relevance, maxRelevance) == relevance

\* Math.round((p.relevance / maxRelevance) * 100)
relevanceScoreOf(relevance, maxRelevance) ==
    MathRound(DoubleTimes(DoubleDiv(relevance, maxRelevance), 100))

ShortTitleLimit == 24
ShortTitleKeep == 21

\* p.title.length > 24 ? p.title.slice(0, 21).trimEnd() + '...' : p.title
shortTitleOf(title) ==
    IF Len(title) > ShortTitleLimit
    THEN TrimEnd(SubSeq(title, 1, ShortTitleKeep)) \o <<"...">>
    ELSE title

\* idx: index instead of index + 1
chartItems_zeroBased(points) ==
    [i \in DOMAIN points |-> [id |-> points[i].id, idx |-> i - 1]]

\* rawPoints.map((p, index) => ({...}))
chartItems(points) ==
    LET maxRelevance == maxRelevanceOf(points)
    IN  [i \in DOMAIN points |->
            [id |-> points[i].id,
             idx |-> i,
             title |-> points[i].title,
             shortTitle |-> shortTitleOf(points[i].title),
             citations |-> points[i].citations,
             relevance |-> points[i].relevance,
             keywordHits |-> points[i].keywordHits,
             relevanceScore |-> relevanceScoreOf(points[i].relevance, maxRelevance)]]

\* useMemo(() => ..., [papers, session])
metricsChartData(s, ps) ==
    IF s = NullSession \/ Len(ps) = 0 THEN <<>>
    ELSE chartItems(rawPointsOf(s, ps))

---------------------------------------------------------------------------
(* The corpus handlers used one after the other *)

corpusIdle == InFlight = 0

SeqNext ==
    \/ initSessionOk
    \/ initSessionFail
    \/ corpusIdle /\ fetchPapers
    \/ srvSelectPapers
    \/ fetchPapers_resolve
    \/ fetchPapers_reject
    \/ \E p \in PaperIds : corpusIdle /\ handleAddPaper(p)
    \/ \E p \in PaperIds : srvAddOk(p)
    \/ \E p \in PaperIds : handleAddPaper_resolve(p)
    \/ \E p \in PaperIds : handleAddPaper_reject(p)
    \/ \E p \in PaperIds : corpusIdle /\ handleRemovePaper_cancel(p)
    \/ \E p \in PaperIds : corpusIdle /\ handleRemovePaper(p)
    \/ \E p \in PaperIds : srvRemoveOk(p)
    \/ \E p \in PaperIds : handleRemovePaper_resolve(p)
    \/ \E p \in PaperIds : handleRemovePaper_reject(p)

\* the session page with its corpus requests one at a time
SpecSeq == Init /\ [][SeqNext]_vars

GenNext ==
    \/ SeqNext
    \/ \E t \in ChatInputs : setChatInput(t)
    \/ handleChatSubmit
    \/ \E a \in Answers : handleChatSubmit_resolve(a)
    \/ \E d \in ErrorDetails : handleChatSubmit_reject(d)
    \/ \E h \in Histories : loadHistory_resolve(h)
    \/ loadHistory_reject
    \/ handleGenerateDraft
    \/ \E c \in DraftContents : handleGenerateDraft_resolve(c)
    \/ handleGenerateDraft_reject
    \/ handleExportBibliography
    \/ handleExportBibliography_done

\* the session page with chat, draft and bibliography, corpus requests one
\* at a time
SpecGen == Init /\ [][GenNext]_vars

\* every option the selects offer; an option of another name is offered only
\* if the select lists it
OfferedStyles == DraftStyleOptions \cup BibStyleOptions \cup {"outline"}

\* the corpus handlers one after the other, the style selects, drafts and
\* bibliography exports
StyleNext ==
    \/ SeqNext
    \/ \E style \in OfferedStyles : setDraftStyle(style)
    \/ \E style \in OfferedStyles : setBibStyle(style)
    \/ handleGenerateDraft
    \/ \E content \in DraftContents : handleGenerateDraft_resolve(content)
    \/ handleGenerateDraft_reject
    \/ handleExportBibliography
    \/ handleExportBibliography_done

SpecStyle == Init /\ [][StyleNext]_vars

----------------------------------------------------------------------------

Next ==
    \/ initSessionOk
    \/ initSessionFail
    \/ fetchPapers
    \/ srvSelectPapers
    \/ fetchPapers_resolve
    \/ fetchPapers_reject
    \/ \E p \in PaperIds : handleAddPaper(p)
    \/ \E p \in PaperIds : srvAddOk(p)
    \/ \E p \in PaperIds : handleAddPaper_resolve(p)
    \/ \E p \in PaperIds : handleAddPaper_reject(p)
    \/ \E p \in PaperIds : handleRemovePaper_cancel(p)
    \/ \E p \in PaperIds : handleRemovePaper(p)
    \/ \E p \in PaperIds : srvRemoveOk(p)
    \/ \E p \in PaperIds : handleRemovePaper_resolve(p)
    \/ \E p \in PaperIds : handleRemovePaper_reject(p)

\* the session page's corpus handlers in every interleaving
Spec == Init /\ [][Next]_vars

---------------------------------------------------------------------------
(* The metrics computation applied to given inputs *)

MetricWords == {<<"D", "e", "e", "p">>, <<"d", "e", "e", "p">>, <<"n", "e", "t", "s", ",">>, <<"n", "e", "t">>}

RECURSIVE TextsOf(_)
\* the texts of up to n words, separated by one space
TextsOf(n) ==
    IF n = 0 THEN {<<>>}
    ELSE LET shorter == TextsOf(n - 1)
         IN  shorter \cup MetricWords
                \cup {t \o <<" ">> \o w : t \in shorter \ {<<>>}, w \in MetricWords}

MetricTexts == TextsOf(MaxWords)

MetricSessions ==
    {[id |-> "s1", title |-> t, topic |-> tp] :
        t \in MetricTexts, tp \in {<<>>, <<"n", "e", "t", "s">>}}

\* abstracts: none; a token twice; tokens inside longer words, beside a hyphen,
\* and a run of hyphens
MetricAbstracts ==
    {<<>>,
     <<<<"d", "e", "e", "p", " ", "n", "e", "t", "s", " ", "d", "e", "e", "p">>>>,
     <<<<"d", "e", "e", "p", "n", "e", "t", "s", " ", "d", "e", "e", "p", "-", "n", "e", "t", "s", " ", "-", "-", "-", "-">>>>}

MetricPapers ==
    {[id |-> "p1", title |-> t, abstract |-> a, citation_count |-> Number(7)] :
        t \in MetricTexts, a \in MetricAbstracts}

MetricCorpora ==
    {<<>>} \cup {<<p>> : p \in MetricPapers}
           \cup {<<PaperRow("p3"), p>> : p \in MetricPapers}

InitMetrics ==
    /\ PageInit
    /\ dbPapers = <<>>
    /\ mPc = "input"
    /\ mSession \in MetricSessions
    /\ mPapers \in MetricCorpora
    /\ mPoints = <<>>
    /\ mChart = <<>>

\* the useMemo callback run on (mSession, mPapers)
computeMetrics ==
    /\ mPc = "input"
    /\ mPc' = "done"
    /\ mPoints' = IF mSession = NullSession \/ Len(mPapers) = 0 THEN <<>>
                  ELSE rawPointsOf(mSession, mPapers)
    /\ mChart' = metricsChartData(mSession, mPapers)
    /\ UNCHANGED <<corpusVars, genVars, appVars, mSession, mPapers>>

SpecMetrics == InitMetrics /\ [][computeMetrics]_vars

\* rawPoints of a corpus of two papers whose relevance values are given
ScoredPoints ==
    {<<[id |-> "p1", title |-> CatalogTitles["p1"], citations |-> 0,
        relevance |-> r1, keywordHits |-> r1],
       [id |-> "p2", title |-> CatalogTitles["p2"], citations |-> 0,
        relevance |-> r2, keywordHits |-> r2]>> :
        r1 \in 0..MaxRelevance, r2 \in 0..MaxRelevance}

InitScore ==
    /\ PageInit
    /\ dbPapers = <<>>
    /\ mPc = "input"
    /\ mSession = SessionRow
    /\ mPapers = <<>>
    /\ mPoints \in ScoredPoints
    /\ mChart = <<>>

\* the last part of the useMemo callback, from maxRelevance on, run on mPoints
computeScores ==
    /\ mPc = "input"
    /\ mPc' = "done"
    /\ mChart' = chartItems(mPoints)
    /\ UNCHANGED <<corpusVars, genVars, appVars, mSession, mPapers, mPoints>>

SpecScore == InitScore /\ [][computeScores]_vars

---------------------------------------------------------------------------
(* The metrics computation applied to a corpus of two papers A and B whose   *)
(* citation counts vary, and run again on the same inputs                    *)

ExampleTopic == <<"m", "a", "c", "h", "i", "n", "e", " ", "l", "e", "a", "r", "n", "i", "n", "g", " ", "d", "i", "a", "g", "n", "o", "s", "t", "i", "c", "s">>

ExampleTitles == {<<>>, <<"D", "i", "a", "g", "n", "o", "s", "t", "i", "c", "s", " ", "s", "t", "u", "d", "y">>}

ExampleSessions == {[id |-> "s1", title |-> t, topic |-> ExampleTopic] : t \in ExampleTitles}

CitationCounts ==
    {Number(n) : n \in (-MaxCitations)..MaxCitations} \cup {Number(50), NotANumber}

PaperA(c) ==
    [id |-> "p1", title |-> <<"M", "a", "c", "h", "i", "n", "e", " ", "L", "e", "a", "r", "n", "i", "n", "g", " ", "f", "o", "r", " ", "D", "i", "a", "g", "n", "o", "s", "t", "i", "c", "s">>,
     abstract |-> <<>>, citation_count |-> c]

PaperB(c) ==
    [id |-> "p2", title |-> <<"C", "o", "o", "k", "i", "n", "g", " ", "R", "e", "c", "i", "p", "e", "s">>,
     abstract |-> <<>>, citation_count |-> c]

ExampleCorpora ==
    {<<PaperA(a), PaperB(b)>> : a, b \in CitationCounts}
        \cup {<<PaperB(b), PaperA(a)>> : a, b \in CitationCounts}

InitExample ==
    /\ PageInit
    /\ dbPapers = <<>>
    /\ mPc = "input"
    /\ mSession \in ExampleSessions
    /\ mPapers \in ExampleCorpora
    /\ mPoints = <<>>
    /\ mChart = <<>>

\* the useMemo callback run again on the same (mSession, mPapers), as after a
\* render that handed it new but equal dependencies
recomputeMetrics ==
    /\ mPc \in {"done", "again"}
    /\ mPc' = "again"
    /\ mPoints' = IF mSession = NullSession \/ Len(mPapers) = 0 THEN <<>>
                  ELSE rawPointsOf(mSession, mPapers)
    /\ mChart' = metricsChartData(mSession, mPapers)
    /\ UNCHANGED <<corpusVars, genVars, appVars, mSession, mPapers>>

ExampleNext == computeMetrics \/ recomputeMetrics

SpecExample == InitExample /\ [][ExampleNext]_vars

---------------------------------------------------------------------------
(* AuthProvider and the auth store *)

UserIds == {"u1", "u2"}

SessionUsers == UserIds \cup {Null}

\* the events supabase.auth.onAuthStateChange delivers
AuthEvents == {"INITIAL_SESSION", "SIGNED_IN", "SIGNED_OUT", "TOKEN_REFRESHED",
               "USER_UPDATED", "PASSWORD_RECOVERY"}

\* the test of the ref, never true
alreadyInitialized_never == FALSE

\* if (initialized.current) return
alreadyInitialized == initialized

\* the effect of AuthProvider, run after the mount and run again after a
\* cleanup: it returns at once when the ref is set, and otherwise sets the
\* ref, calls initializeAuth (up to its await) and subscribes to auth changes
authEffect ==
    /\ effectPc = "pending"
    /\ initRuns < MaxInitRuns
    /\ effectPc' = "active"
    /\ IF alreadyInitialized
       THEN UNCHANGED <<initialized, initRuns, authReqs, subscribed>>
       ELSE /\ initialized' = TRUE
            /\ initRuns' = initRuns + 1
            /\ authReqs' = authReqs + 1
            /\ subscribed' = TRUE
    /\ UNCHANGED <<authUser, authVer, authLoading, lastEvent>>
    /\ UNCHANGED <<corpusVars, genVars, metricVars, uploadVars, styleVars, homeVars, dashVars>>

\* the cleanup of the effect before it is run again: subscription.unsubscribe()
\* when the run had subscribed
authCleanup ==
    /\ effectPc = "active"
    /\ effectPc' = "pending"
    /\ subscribed' = FALSE
    /\ UNCHANGED <<authUser, authVer, authLoading, initialized, authReqs, initRuns,
                   lastEvent>>
    /\ UNCHANGED <<corpusVars, genVars, metricVars, uploadVars, styleVars, homeVars, dashVars>>

\* useAuthStore.setUser: set({ user, loading: false }); a user that is not
\* null is a new object
setUser(u) ==
    /\ authUser' = u
    /\ authLoading' = FALSE
    /\ authVer' = IF u = Null THEN authVer ELSE authVer + 1

\* initializeAuth after the await: setUser(session?.user ?? null), finally
initializeAuth_resolve(u) ==
    /\ authReqs > 0
    /\ u # Null => authVer < MaxUserObjects
    /\ authReqs' = authReqs - 1
    /\ setUser(u)
    /\ UNCHANGED <<initialized, effectPc, subscribed, initRuns, lastEvent>>
    /\ UNCHANGED <<corpusVars, genVars, metricVars, uploadVars, styleVars, homeVars, dashVars>>

\* initializeAuth, catch: setUser(null), finally
initializeAuth_reject ==
    /\ authReqs > 0
    /\ authReqs' = authReqs - 1
    /\ setUser(Null)
    /\ UNCHANGED <<initialized, effectPc, subscribed, initRuns, lastEvent>>
    /\ UNCHANGED <<corpusVars, genVars, metricVars, uploadVars, styleVars, homeVars, dashVars>>

\* every event counts as an auth event
isAuthEvent_any(event) == TRUE

\* event === 'SIGNED_IN' || event === 'SIGNED_OUT' || event === 'TOKEN_REFRESHED'
isAuthEvent(event) == event \in {"SIGNED_IN", "SIGNED_OUT", "TOKEN_REFRESHED"}

\* the onAuthStateChange callback
authEvent(event, u) ==
    /\ subscribed
    /\ (isAuthEvent(event) /\ u # Null) => authVer < MaxUserObjects
    /\ lastEvent' = event
    /\ IF isAuthEvent(event) THEN setUser(u)
       ELSE UNCHANGED <<authUser, authLoading, authVer>>
    /\ UNCHANGED <<initialized, effectPc, subscribed, authReqs, initRuns>>
    /\ UNCHANGED <<corpusVars, genVars, metricVars, uploadVars, styleVars, homeVars, dashVars>>

AuthNext ==
    \/ authEffect
    \/ authCleanup
    \/ \E u \in SessionUsers : initializeAuth_resolve(u)
    \/ initializeAuth_reject
    \/ \E event \in AuthEvents, u \in SessionUsers : authEvent(event, u)

---------------------------------------------------------------------------
(* Home and the onboarding page *)

\* steps.length
NumSteps == 4

\* the value localStorage holds after setItem('onboarding_completed', 'true')
Completed == "true"

\* Home sends everybody to the onboarding
routeFor_alwaysOnboarding(flag) == "/onboarding"

\* if (onboardingCompleted) router.push('/auth') else router.push('/onboarding')
routeFor(flag) == IF flag # Null THEN "/auth" ELSE "/onboarding"

\* the effect of Home; a page the router opens starts with its initial state
homeEffect ==
    /\ route = "/"
    /\ route' = routeFor(onboardingCompleted)
    /\ homePushed' = route'
    /\ currentStep' = 0
    /\ UNCHANGED onboardingCompleted
    /\ UNCHANGED <<corpusVars, genVars, metricVars, uploadVars, styleVars, authVars, dashVars>>

handleNext ==
    /\ route = "/onboarding"
    /\ IF currentStep < NumSteps - 1
       THEN /\ currentStep' = currentStep + 1
            /\ UNCHANGED <<route, homePushed, onboardingCompleted>>
       ELSE /\ onboardingCompleted' = Completed
            /\ route' = "/auth"
            /\ UNCHANGED <<homePushed, currentStep>>
    /\ UNCHANGED <<corpusVars, genVars, metricVars, uploadVars, styleVars, authVars, dashVars>>

handlePrevious ==
    /\ route = "/onboarding"
    /\ currentStep > 0
    /\ currentStep' = currentStep - 1
    /\ UNCHANGED <<route, homePushed, onboardingCompleted>>
    /\ UNCHANGED <<corpusVars, genVars, metricVars, uploadVars, styleVars, authVars, dashVars>>

\* a progress dot: setCurrentStep(index)
setCurrentStep(index) ==
    /\ route = "/onboarding"
    /\ currentStep' = index
    /\ UNCHANGED <<route, homePushed, onboardingCompleted>>
    /\ UNCHANGED <<corpusVars, genVars, metricVars, uploadVars, styleVars, authVars, dashVars>>

handleSkip ==
    /\ route = "/onboarding"
    /\ onboardingCompleted' = Completed
    /\ route' = "/auth"
    /\ UNCHANGED <<homePushed, currentStep>>
    /\ UNCHANGED <<corpusVars, genVars, metricVars, uploadVars, styleVars, authVars, dashVars>>

\* the pages a visitor opens by their address
Addresses == {"/", "/onboarding", "/auth"}

\* the visitor opens a page by its address
visit(address) ==
    /\ route # address
    /\ route' = address
    /\ currentStep' = 0
    /\ UNCHANGED <<homePushed, onboardingCompleted>>
    /\ UNCHANGED <<corpusVars, genVars, metricVars, uploadVars, styleVars, authVars, dashVars>>

HomeNext ==
    \/ homeEffect
    \/ handleNext
    \/ handlePrevious
    \/ \E index \in 0..(NumSteps - 1) : setCurrentStep(index)
    \/ handleSkip
    \/ \E address \in Addresses : visit(address)

\* the application opened at Home by a user who has no session page open
InitApp == Init /\ dbPapers = <<>>

\* the provider around every page, Home and the onboarding
AppNext == AuthNext \/ HomeNext

SpecApp == InitApp /\ [][AppNext]_vars

---------------------------------------------------------------------------
(* DashboardPage and the dashboard store.  A request in flight is           *)
(* [kind, id, st, snap, live]: st is "sent" until the backend has executed   *)
(* it, snap holds what the continuation will use (the rows a select read,    *)
(* the sessions value a create closed over), live tells whether the page     *)
(* that sent it is still mounted (the setters of an unmounted page do        *)
(* nothing, those of the store always act).                                  *)

SessionNames == <<"s1", "s2", "s3", "s4">>

SessionIds == {SessionNames[i] : i \in 1..NumSessions}

\* the user whose dashboard is modelled
DashUser == "u1"

DashRequest(kind, id, snap) ==
    [kind |-> kind, id |-> id, st |-> "sent", snap |-> snap, live |-> TRUE]

\* DashboardLayout renders its children
layoutShowsPage == ~authLoading /\ authUser # Null

\* the page renders its list and buttons (not the 'Loading sessions...' screen)
dashVisible == dashMounted /\ layoutShowsPage /\ ~dashLoading

\* the router opens /dashboard: a new DashboardPage with its initial state,
\* whose effect has not run yet
mountDashboard ==
    /\ ~dashMounted
    /\ layoutShowsPage
    /\ dashMounted' = TRUE
    /\ dashLoading' = TRUE
    /\ creating' = FALSE
    /\ userSeen' = <<Null, 0>>
    /\ UNCHANGED <<sessions, dashReqs, dbSessions, dbInserted>>
    /\ UNCHANGED <<corpusVars, genVars, metricVars, uploadVars, styleVars, authVars, homeVars>>

\* the requests in flight once their page is gone
orphaned(reqs) == BagOfAll(LAMBDA r : [r EXCEPT !.live = FALSE], reqs)

\* the page is left (another page is opened, or the layout stops rendering it)
unmountDashboard ==
    /\ dashMounted
    /\ dashMounted' = FALSE
    /\ dashReqs' = orphaned(dashReqs)
    /\ UNCHANGED <<sessions, dashLoading, creating, userSeen, dbSessions, dbInserted>>
    /\ UNCHANGED <<corpusVars, genVars, metricVars, uploadVars, styleVars, authVars, homeVars>>

\* useEffect(() => { if (user) fetchSessions() }, [user]); fetchSessions up to
\* its await
dashboardEffect ==
    /\ dashMounted
    /\ userSeen # <<authUser, authVer>>
    /\ userSeen' = <<authUser, authVer>>
    /\ IF authUser # Null
       THEN /\ BagCardinality(dashReqs) < MaxDashInFlight
            /\ dashLoading' = TRUE
            /\ dashReqs' = dashReqs (+) SetToBag({DashRequest("fetch", Null, <<>>)})
       ELSE UNCHANGED <<dashLoading, dashReqs>>
    /\ UNCHANGED <<sessions, dashMounted, creating, dbSessions, dbInserted>>
    /\ UNCHANGED <<corpusVars, genVars, metricVars, uploadVars, styleVars, authVars, homeVars>>

\* the select is executed on the current rows
srvSelectSessions ==
    \E r \in BagToSet(dashReqs) :
        /\ r.kind = "fetch" /\ r.st = "sent"
        /\ dashReqs' = (dashReqs (-) SetToBag({r}))
                            (+) SetToBag({[r EXCEPT !.st = "ok", !.snap = dbSessions]})
        /\ UNCHANGED <<sessions, dashMounted, dashLoading, creating, userSeen,
                       dbSessions, dbInserted>>
        /\ UNCHANGED <<corpusVars, genVars, metricVars, uploadVars, styleVars, authVars, homeVars>>

\* fetchSessions after the await: setSessions(data || []), finally
fetchSessions_resolve ==
    \E r \in BagToSet(dashReqs) :
        /\ r.kind = "fetch" /\ r.st = "ok"
        /\ dashReqs' = dashReqs (-) SetToBag({r})
        /\ sessions' = r.snap
        /\ dashLoading' = IF r.live THEN FALSE ELSE dashLoading
        /\ UNCHANGED <<dashMounted, creating, userSeen, dbSessions, dbInserted>>
        /\ UNCHANGED <<corpusVars, genVars, metricVars, uploadVars, styleVars, authVars, homeVars>>

\* fetchSessions, catch: console.error, finally
fetchSessions_reject ==
    \E r \in BagToSet(dashReqs) :
        /\ r.kind = "fetch" /\ r.st = "sent"
        /\ dashReqs' = dashReqs (-) SetToBag({r})
        /\ dashLoading' = IF r.live THEN FALSE ELSE dashLoading
        /\ UNCHANGED <<sessions, dashMounted, creating, userSeen, dbSessions, dbInserted>>
        /\ UNCHANGED <<corpusVars, genVars, metricVars, uploadVars, styleVars, authVars, homeVars>>

\* handleCreateSession up to its await; the submit button is disabled while
\* creating; the continuation will use the sessions value of this render
handleCreateSession ==
    /\ dashVisible
    /\ ~creating
    /\ dbInserted < NumSessions
    /\ BagCardinality(dashReqs) < MaxDashInFlight
    /\ creating' = TRUE
    /\ dashReqs' = dashReqs (+) SetToBag({DashRequest("create", Null, sessions)})
    /\ UNCHANGED <<sessions, dashMounted, dashLoading, userSeen, dbSessions, dbInserted>>
    /\ UNCHANGED <<corpusVars, genVars, metricVars, uploadVars, styleVars, authVars, homeVars>>

\* insert(...).select().single() is executed: a new row, the newest one
srvInsertSession ==
    \E r \in BagToSet(dashReqs) :
        /\ r.kind = "create" /\ r.st = "sent"
        /\ dbInserted < NumSessions
        /\ dbInserted' = dbInserted + 1
        /\ dbSessions' = <<SessionNames[dbInserted + 1]>> \o dbSessions
        /\ dashReqs' = (dashReqs (-) SetToBag({r}))
                            (+) SetToBag({[r EXCEPT !.st = "ok", !.id = SessionNames[dbInserted + 1]]})
        /\ UNCHANGED <<sessions, dashMounted, dashLoading, creating, userSeen>>
        /\ UNCHANGED <<corpusVars, genVars, metricVars, uploadVars, styleVars, authVars, homeVars>>

\* handleCreateSession after the await: setSessions([data, ...sessions]),
\* router.push to the session's page (the dashboard page is left), finally
handleCreateSession_resolve ==
    \E r \in BagToSet(dashReqs) :
        /\ r.kind = "create" /\ r.st = "ok"
        /\ sessions' = <<r.id>> \o r.snap
        /\ dashMounted' = FALSE
        /\ dashReqs' = orphaned(dashReqs (-) SetToBag({r}))
        /\ creating' = IF r.live THEN FALSE ELSE creating
        /\ UNCHANGED <<dashLoading, userSeen, dbSessions, dbInserted>>
        /\ UNCHANGED <<corpusVars, genVars, metricVars, uploadVars, styleVars, authVars, homeVars>>

\* handleCreateSession, catch: console.error, finally
handleCreateSession_reject ==
    \E r \in BagToSet(dashReqs) :
        /\ r.kind = "create" /\ r.st = "sent"
        /\ dashReqs' = dashReqs (-) SetToBag({r})
        /\ creating' = IF r.live THEN FALSE ELSE creating
        /\ UNCHANGED <<sessions, dashMounted, dashLoading, userSeen, dbSessions, dbInserted>>
        /\ UNCHANGED <<corpusVars, genVars, metricVars, uploadVars, styleVars, authVars, homeVars>>

\* the delete button of a listed session
deleteOffered(id) == dashVisible /\ id \in Range(sessions)

\* handleDeleteSession, confirm declined
handleDeleteSession_cancel(id) ==
    /\ deleteOffered(id)
    /\ UNCHANGED vars

\* handleDeleteSession, confirmed, up to its await
handleDeleteSession(id) ==
    /\ deleteOffered(id)
    /\ BagCardinality(dashReqs) < MaxDashInFlight
    /\ dashReqs' = dashReqs (+) SetToBag({DashRequest("delete", id, <<>>)})
    /\ UNCHANGED <<sessions, dashMounted, dashLoading, creating, userSeen, dbSessions,
                   dbInserted>>
    /\ UNCHANGED <<corpusVars, genVars, metricVars, uploadVars, styleVars, authVars, homeVars>>

\* delete from research_sessions where id = ... is executed
srvDeleteSession(id) ==
    \E r \in BagToSet(dashReqs) :
        /\ r.kind = "delete" /\ r.st = "sent" /\ r.id = id
        /\ dbSessions' = SelectNot(dbSessions, id)
        /\ dashReqs' = (dashReqs (-) SetToBag({r})) (+) SetToBag({[r EXCEPT !.st = "ok"]})
        /\ UNCHANGED <<sessions, dashMounted, dashLoading, creating, userSeen, dbInserted>>
        /\ UNCHANGED <<corpusVars, genVars, metricVars, uploadVars, styleVars, authVars, homeVars>>

\* useDashboardStore.removeSession: sessions.filter((s) => s.id !== id)
removeSession(list, id) == SelectNot(list, id)

\* handleDeleteSession after the await: removeSession(id)
handleDeleteSession_resolve(id) ==
    \E r \in BagToSet(dashReqs) :
        /\ r.kind = "delete" /\ r.st = "ok" /\ r.id = id
        /\ dashReqs' = dashReqs (-) SetToBag({r})
        /\ sessions' = removeSession(sessions, id)
        /\ UNCHANGED <<dashMounted, dashLoading, creating, userSeen, dbSessions, dbInserted>>
        /\ UNCHANGED <<corpusVars, genVars, metricVars, uploadVars, styleVars, authVars, homeVars>>

\* handleDeleteSession, catch: console.error
handleDeleteSession_reject(id) ==
    \E r \in BagToSet(dashReqs) :
        /\ r.kind = "delete" /\ r.st = "sent" /\ r.id = id
        /\ dashReqs' = dashReqs (-) SetToBag({r})
        /\ UNCHANGED <<sessions, dashMounted, dashLoading, creating, userSeen, dbSessions,
                       dbInserted>>
        /\ UNCHANGED <<corpusVars, genVars, metricVars, uploadVars, styleVars, authVars, homeVars>>

\* the provider's session check finding the user, the user's token being
\* refreshed and the user signing out, and the dashboard
DashNext ==
    \/ authEffect
    \/ initializeAuth_resolve(DashUser)
    \/ authEvent("TOKEN_REFRESHED", DashUser)
    \/ authEvent("SIGNED_OUT", Null)
    \/ mountDashboard
    \/ unmountDashboard
    \/ dashboardEffect
    \/ srvSelectSessions
    \/ fetchSessions_resolve
    \/ fetchSessions_reject
    \/ handleCreateSession
    \/ srvInsertSession
    \/ handleCreateSession_resolve
    \/ handleCreateSession_reject
    \/ \E id \in SessionIds :
          \/ handleDeleteSession_cancel(id)
          \/ handleDeleteSession(id)
          \/ srvDeleteSession(id)
          \/ handleDeleteSession_resolve(id)
          \/ handleDeleteSession_reject(id)

SpecDash == InitApp /\ [][DashNext]_vars

---------------------------------------------------------------------------
(* The session page with the file input *)

\* the upload's steps after the file was accepted
UploadSteps ==
    \/ handleUploadPdf_uploaded
    \/ handleUploadPdf_uploadError
    \/ srvAddUploaded
    \/ handleUploadPdf_added
    \/ handleUploadPdf_reject

FileNext ==
    \/ SeqNext
    \/ \E file \in Files \cup {NoFile} : corpusIdle /\ handleUploadPdf(file)
    \/ UploadSteps

\* files of every type and size given to the file input, the page's requests
\* one at a time
SpecFile == InitApp /\ [][FileNext]_vars

\* a PDF file of one megabyte
SmallPdf == [type |-> PdfType, size |-> 1024 * 1024]

\* the search results whose cards are used next to the upload
FoundPapers == {"p1", "p2"}

\* the papers whose cards are used: the search results and the uploaded paper
UploadPapers == FoundPapers \cup {UploadedPaper}

UploadNext ==
    \/ initSessionOk
    \/ initSessionFail
    \/ fetchPapers
    \/ srvSelectPapers
    \/ fetchPapers_resolve
    \/ fetchPapers_reject
    \/ \E p \in FoundPapers : handleAddPaper(p)
    \/ \E p \in FoundPapers : srvAddOk(p)
    \/ \E p \in FoundPapers : handleAddPaper_resolve(p)
    \/ \E p \in FoundPapers : handleAddPaper_reject(p)
    \/ \E p \in UploadPapers : handleRemovePaper_cancel(p)
    \/ \E p \in UploadPapers : handleRemovePaper(p)
    \/ \E p \in UploadPapers : srvRemoveOk(p)
    \/ \E p \in UploadPapers : handleRemovePaper_resolve(p)
    \/ \E p \in UploadPapers : handleRemovePaper_reject(p)
    \/ handleUploadPdf(SmallPdf)
    \/ UploadSteps

\* the upload of a PDF file, Refresh, and the add and remove of two search
\* results and of the uploaded paper, in every interleaving
SpecUpload == InitApp /\ [][UploadNext]_vars

---------------------------------------------------------------------------
(* Properties *)

IsPrefix(s, t) == Len(s) <= Len(t) /\ SubSeq(t, 1, Len(s)) = s

AddRequest(p, st) == [paper |-> p, st |-> st]

\* C1: two add operations in flight together never lose a paper: no step of
\* an add (sending, the backend accepting, the response or the failure being
\* handled) removes a paper from papers or addedPaperIds, and the handling of
\* a successful response puts the added paper into both.
C1_ConcurrentAddsKeepBoth ==
    [][\A p \in PaperIds :
          /\ handleAddPaper_resolve(p) =>
                /\ p \in Range(papers') /\ p \in addedPaperIds'
                /\ Range(papers) \subseteq Range(papers')
                /\ addedPaperIds \subseteq addedPaperIds'
          /\ (handleAddPaper(p) \/ srvAddOk(p) \/ handleAddPaper_reject(p)) =>
                papers' = papers /\ addedPaperIds' = addedPaperIds]_vars

\* two adds of distinct papers overlapped: the add of q is still waiting for
\* its handling although addingPaper was reset by another add, and p is listed
C1_Witness ==
    \E p, q \in PaperIds :
        /\ p # q
        /\ BagIn(AddRequest(q, "ok"), addReqs)
        /\ addingPaper = Null
        /\ papers = <<p>>
        /\ dbPapers = <<q, p>>

\* C2: removal is atomic: papers and addedPaperIds always hold the same
\* ids; a successful removal of p takes p out of both; a failed or cancelled
\* one changes neither; and a paper that neither the backend nor the page
\* holds (as after a successful removal) comes back only by an add of it.
C2_RemovalAtomic ==
    [][/\ \A p \in PaperIds : p \in Range(papers') <=> p \in addedPaperIds'
       /\ \A p \in PaperIds :
            /\ handleRemovePaper_resolve(p) =>
                  p \notin Range(papers') /\ p \notin addedPaperIds'
            /\ (handleRemovePaper_reject(p) \/ handleRemovePaper_cancel(p)) =>
                  papers' = papers /\ addedPaperIds' = addedPaperIds
            /\ (p \notin Range(dbPapers) /\ p \notin Range(papers)
                    /\ p \in Range(papers')) =>
                  handleAddPaper_resolve(p)]_vars

\* C3: with an empty corpus no step sends a /rag/chat, /draft/generate or
\* /draft/bibliography request.
C3_NoGenerationOnEmptyCorpus ==
    [][Len(papers) = 0 =>
          /\ Len(chatReqs') <= Len(chatReqs)
          /\ draftReqs' <= draftReqs
          /\ bibReqs' <= bibReqs]_vars

\* the corpus is empty again after a draft was generated, and a question is
\* typed in
C3_Witness ==
    /\ Rendered
    /\ Len(papers) = 0
    /\ Trim(chatInput) # <<>>
    /\ ~chatLoading /\ ~draftLoading /\ ~bibLoading
    /\ draftContent # <<>>

\* C4: chatMessages is append-only: every step leaves the earlier value a
\* prefix of the later one.
C4_ChatAppendOnly == [][IsPrefix(chatMessages, chatMessages')]_vars

\* C5 as stated: a failed /rag/chat request adds no assistant turn.
C5_FailureAddsNoAssistantTurn ==
    [][\A d \in ErrorDetails :
          handleChatSubmit_reject(d) => chatMessages' = chatMessages]_vars

\* C5, amended: the user turn is appended when the question is submitted, and
\* a failed /rag/chat request appends exactly one assistant turn, whose content
\* is 'Error: ' followed by the failure's detail and is no answer of the model.
C5_FailureAppendsErrorTurn ==
    [][/\ handleChatSubmit =>
            chatMessages' = Append(chatMessages, UserTurn(Trim(chatInput)))
       /\ \A d \in ErrorDetails :
            handleChatSubmit_reject(d) =>
                /\ Len(chatMessages') = Len(chatMessages) + 1
                /\ IsPrefix(chatMessages, chatMessages')
                /\ chatMessages'[Len(chatMessages')].role = "assistant"
                /\ IsPrefix(ErrorPrefix, chatMessages'[Len(chatMessages')].content)
                /\ Len(chatMessages'[Len(chatMessages')].content) > Len(ErrorPrefix)
                /\ chatMessages'[Len(chatMessages')].content \notin Answers]_vars

\* a question was asked and its request failed
C5_Witness ==
    /\ ~chatLoading /\ chatReqs = <<>>
    /\ Len(chatMessages) = 2
    /\ chatMessages[1] = UserTurn(<<"q">>)
    /\ chatMessages[2] = AssistantTurn(chatErrorContent(<<>>))

\* C6: while a chat request is pending, the last entry of chatMessages is
\* the user turn of its question, with no assistant entry after it.
C6_PendingQuestionIsLast ==
    chatReqs # <<>> =>
        /\ chatMessages # <<>>
        /\ chatMessages[Len(chatMessages)] = UserTurn(chatReqs[1])

\* C7: papers never holds two entries with the same id.
C7_PaperIdsUnique ==
    \A i, j \in DOMAIN papers : i # j => papers[i] # papers[j]

\* the response of an add of p is about to be handled while p is listed
C7_Witness ==
    \E p \in PaperIds : p \in Range(papers) /\ BagIn(AddRequest(p, "ok"), addReqs)

\* C8: with a loaded session the metrics list has one entry per paper of
\* papers, in the same order, with idx the position counted from 1; it is
\* empty when papers is.
C8_MetricsFollowPapers ==
    session # NullSession =>
        LET chart == metricsChartData(session, PaperRows(papers))
        IN  /\ Len(chart) = Len(papers)
            /\ \A i \in DOMAIN chart : chart[i].id = papers[i] /\ chart[i].idx = i

\* the list changed after loading: two papers, the newest one added or left
\* over on the page in an order the backend does not hold
C8_Witness ==
    Rendered /\ Len(papers) = 2 /\ InFlight = 0 /\ papers # dbPapers

\* round(x / y) for integers x >= 0, y > 0, halves upwards
RoundedQuotient(x, y) == (2 * x + y) \div (2 * y)

RECURSIVE MaxRelevanceIn(_)
MaxRelevanceIn(points) ==
    IF points = <<>> THEN 0
    ELSE LET m == MaxRelevanceIn(Tail(points))
         IN  IF Head(points).relevance > m THEN Head(points).relevance ELSE m

\* C9: relevanceScore = round(100 * relevance / max relevance), and 0 for
\* every paper when the maximum relevance is 0.
C9_ScoreIsRoundedShare ==
    mPc = "done" =>
        \A i \in DOMAIN mChart :
            mChart[i].relevanceScore =
                IF MaxRelevanceIn(mPoints) = 0 THEN 0
                ELSE RoundedQuotient(100 * mPoints[i].relevance, MaxRelevanceIn(mPoints))

\* C10: relevance is the size of the intersection of the topic's token set
\* and the paper's token set.
C10_RelevanceIsIntersectionSize ==
    mPc = "done" =>
        \A i \in DOMAIN mChart :
            mChart[i].relevance =
                Cardinality(tokenize(topicTextOf(mSession))
                                \cap tokenize(paperTextOf(mPapers[i])))

\* a token occurs twice in the topic and twice in the paper and is counted once
C10_Witness ==
    /\ mPc = "done"
    /\ \E i \in DOMAIN mChart :
        /\ mChart[i].relevance = 2
        /\ Len(tokenList(topicTextOf(mSession))) > 2
        /\ Len(tokenList(paperTextOf(mPapers[i]))) > 2

\* the token t stands at position k of text between two word boundaries
WholeWordAt(text, k, t) ==
    /\ k + Len(t) - 1 <= Len(text)
    /\ SubSeq(text, k, k + Len(t) - 1) = t
    /\ WordBoundary(text, k)
    /\ WordBoundary(text, k + Len(t))

\* C11: keywordHits of a paper is the number of whole-word occurrences of
\* topic tokens in the paper's title + abstract text: every occurrence of
\* every topic token counts.
C11_KeywordHitsCountOccurrences ==
    mPc = "done" =>
        \A i \in DOMAIN mChart :
            LET text == paperTextOf(mPapers[i])
            IN  mChart[i].keywordHits =
                    Cardinality({tk \in tokenize(topicTextOf(mSession)) \X (1..Len(text)) :
                                    WholeWordAt(text, tk[2], tk[1])})

\* one topic token of the paper occurs three times in its text
C11_Witness ==
    /\ mPc = "done"
    /\ \E i \in DOMAIN mChart :
        mChart[i].relevance = 1 /\ mChart[i].keywordHits = 3

LettersAndDigits == Range(LowerCase) \cup Range(UpperCase) \cup Range(Digits)

\* C12: every token the tokenizer produces from the session's and the
\* papers' texts has at least 4 characters, no uppercase letter and no
\* punctuation character; an empty text gives no token.
C12_TokensAreCleanWords ==
    /\ tokenize(<<>>) = {}
    /\ mPc = "done" =>
          \A text \in {topicTextOf(mSession)} \cup {paperTextOf(mPapers[i]) : i \in DOMAIN mPapers} :
              \A tok \in tokenize(text) :
                  /\ Len(tok) >= 4
                  /\ \A k \in DOMAIN tok :
                        tok[k] \notin UpperChars /\ tok[k] \in LettersAndDigits

\* C13: citations is the stored citation_count when that is a positive
\* number and 0 otherwise (zero, negative, not a number); never negative.
C13_CitationsClamped ==
    mPc # "input" =>
        \A i \in DOMAIN mChart :
            LET c == mPapers[i].citation_count
            IN  /\ mChart[i].citations >= 0
                /\ (c.num /\ c.val > 0) => mChart[i].citations = c.val
                /\ (~c.num \/ c.val <= 0) => mChart[i].citations = 0

\* a negative count beside a positive one
C13_Witness ==
    /\ mPc = "done"
    /\ \E i, j \in DOMAIN mChart :
        /\ mPapers[i].citation_count.val < 0 /\ mChart[i].citations = 0
        /\ mPapers[j].citation_count.val > 0 /\ mChart[j].citations > 0

\* the chart entry of the paper with the given id
ChartEntry(chart, id) == chart[CHOOSE i \in DOMAIN chart : chart[i].id = id]

\* C14: for the topic "machine learning diagnostics", paper A "Machine
\* Learning for Diagnostics" with 50 citations and paper B "Cooking Recipes"
\* with 5, every computation gives relevance(A) > relevance(B), score 100 for
\* A and 0 for B, citations 50 and 5, and a recomputation gives the same list.
C14_ExampleMetrics ==
    [][(/\ mPc' # "input"
        /\ PaperA(Number(50)) \in Range(mPapers)
        /\ PaperB(Number(5)) \in Range(mPapers)) =>
            LET a == ChartEntry(mChart', "p1")
                b == ChartEntry(mChart', "p2")
            IN  /\ Len(mChart') = 2
                /\ a.relevance > b.relevance
                /\ a.relevanceScore = 100 /\ b.relevanceScore = 0
                /\ a.citations = 50 /\ b.citations = 5
                /\ mPc # "input" => mChart' = mChart]_vars

\* the example was computed twice, for a session that also has a title
C14_Witness ==
    /\ mPc = "again"
    /\ mSession.title # <<>>
    /\ mPapers = <<PaperB(Number(5)), PaperA(Number(50))>>
    /\ ChartEntry(mChart, "p1").relevanceScore = 100

\* C17: every relevanceScore is an integer in 0..100, and when some paper
\* has relevance > 0 some paper has relevanceScore 100.
C17_ScoreWithinRange ==
    mPc = "done" =>
        /\ \A i \in DOMAIN mChart : mChart[i].relevanceScore \in 0..100
        /\ (\E i \in DOMAIN mPoints : mPoints[i].relevance > 0) =>
              \E j \in DOMAIN mChart : mChart[j].relevanceScore = 100

\* the best paper scores 100 and the other one a rounded share of it
C17_Witness ==
    /\ mPc = "done"
    /\ Len(mChart) = 2
    /\ mChart[1].relevanceScore = 57
    /\ mChart[2].relevanceScore = 100

\* C15: draftStyle is always summary or literature_review and bibStyle is
\* always bibtex, apa, mla or ieee, and every /draft/generate and
\* /draft/bibliography request in flight carries a style of its set.
C15_StylesKnown ==
    /\ draftStyle \in {"summary", "literature_review"}
    /\ bibStyle \in {"bibtex", "apa", "mla", "ieee"}
    /\ draftReqs > 0 => draftReqStyle \in {"summary", "literature_review"}
    /\ bibReqs > 0 => bibReqStyle \in {"bibtex", "apa", "mla", "ieee"}

\* both selects were changed and a request of each kind is in flight
C15_Witness ==
    /\ draftReqs > 0 /\ draftReqStyle = "summary"
    /\ bibReqs > 0 /\ bibReqStyle = "ieee"

\* C18: for one mounted AuthProvider initializeAuth is called at most once,
\* however often the effect is run again.
C18_InitializeAuthOnce == initRuns <= 1

\* the effect was run again after its cleanup and returned at the ref
C18_Witness ==
    /\ initRuns = 1
    /\ initialized
    /\ effectPc = "active"
    /\ ~subscribed

C20_HomeFollowsOnboardingFlag ==
    [][/\ homeEffect =>
            /\ route' = "/auth" <=> onboardingCompleted # Null
            /\ route' = "/onboarding" <=> onboardingCompleted = Null
       /\ (handleSkip \/ (handleNext /\ currentStep = NumSteps - 1)) =>
            onboardingCompleted' # Null /\ route' = "/auth"
       /\ onboardingCompleted # Null => onboardingCompleted' # Null]_vars

\* after the onboarding was finished or skipped, Home was visited again and
\* routed to /auth
C20_Witness ==
    /\ onboardingCompleted # Null
    /\ homePushed = "/auth"
    /\ route = "/auth"

\* C16: a session leaves the sessions list of the dashboard store only
\* after its deletion was confirmed and the backend delete succeeded (its
\* row is gone); a cancelled or a failed deletion leaves the list as it is;
\* the continuation of a succeeded delete removes its session.
C16_SessionsPersistUntilDeleted ==
    [][\A id \in SessionIds :
          /\ (id \in Range(sessions) /\ id \notin Range(sessions')) =>
                id \notin Range(dbSessions)
          /\ (handleDeleteSession_cancel(id) \/ handleDeleteSession_reject(id)) =>
                sessions' = sessions
          /\ handleDeleteSession_resolve(id) => id \notin Range(sessions')]_vars

\* C21: a selected file whose type is not application/pdf or whose size is
\* not smaller than 20 MB (20*1024*1024 bytes) starts no upload: the handler
\* issues no storage upload and no /sources/add-uploaded request, does not
\* set uploadingPdf, and leaves papers and the stored rows unchanged.
C21_OnlySmallPdfsUploaded ==
    [][\A file \in Files :
          ((file.type # PdfType \/ ~(file.size < maxSize)) /\ handleUploadPdf(file)) =>
              /\ uploadPc' = "idle"
              /\ uploadingPdf' = FALSE
              /\ papers' = papers
              /\ dbPapers' = dbPapers]_vars


\* C22: in every reachable state of the session page addedPaperIds is
\* exactly the set of ids of the entries of papers, whatever fetchPapers,
\* handleAddPaper, handleRemovePaper and handleUploadPdf calls have completed
\* (successfully or not) and in whatever order their continuations ran.
C22_AddedIdsAreIdsOfPapers == addedPaperIds = Range(papers)

\* the uploaded paper and a search result are listed after the upload's
\* fetchPapers and an add completed, while further requests are in flight
C22_Witness ==
    /\ UploadedPaper \in addedPaperIds
    /\ uploadPc = "idle"
    /\ \E p \in FoundPapers : p \in addedPaperIds /\ p \in Range(papers)
    /\ fetchReqs # EmptyBag
    /\ removeReqs # EmptyBag


\* C23: for every paper at most one /sources/add-to-session request is in
\* flight at a time (sent and not yet handled by the page), also when adds
\* of other papers start and finish in between.
C23_OneAddInFlightPerPaper ==
    \A p \in PaperIds :
        CopiesIn(AddRequest(p, "sent"), addReqs)
            + CopiesIn(AddRequest(p, "ok"), addReqs) <= 1


\* C24: a fetchPapers response (Refresh, init or post-upload) never makes a
\* successfully added paper disappear: a paper that is listed in papers,
\* whose row the backend holds (it was not removed) and none of whose adds is
\* still in flight (its handleAddPaper completed) is in papers after the
\* response was handled, whenever the response's rows were read.
C24_FetchKeepsAddedPapers ==
    [][fetchPapers_resolve =>
          \A p \in PaperIds :
              (/\ p \in Range(papers)
               /\ p \in Range(dbPapers)
               /\ ~BagIn(AddRequest(p, "sent"), addReqs)
               /\ ~BagIn(AddRequest(p, "ok"), addReqs)) => p \in Range(papers')]_vars


===========================================================================
